---------------------------- MODULE Spec2Model ----------------------------
(***************************************************************************)
(* Model of the reqline service, src/services/reqline/parse.js.            *)
(*                                                                         *)
(* A JavaScript string is a sequence of one-character strings.  A value    *)
(* that is not a string (what rc.body.reqline may also be) is a record     *)
(* with field type only.  A message of the catalogue ../../messages/       *)
(* req-line is named by its key.                                           *)
(***************************************************************************)
EXTENDS Integers, Sequences, FiniteSets, TLC

(***************************************************************************)
(* String.prototype methods used by parse                                  *)
(***************************************************************************)
\* characters String.prototype.trim removes (the ASCII ones)
WhiteSpace == {" ", "\t", "\n", "\r"}

startsWithAt(s, p, i) ==
    /\ i >= 1
    /\ i + Len(p) - 1 <= Len(s)
    /\ \A k \in 1..Len(p) : s[i + k - 1] = p[k]

startsWith(s, p) == startsWithAt(s, p, 1)

endsWith(s, p) == Len(p) <= Len(s) /\ startsWithAt(s, p, Len(s) - Len(p) + 1)

includes(s, p) == \E i \in 1..(Len(s) + 1) : startsWithAt(s, p, i)

\* s.indexOf(c) as a 1-based position, 0 for the -1 of JavaScript
indexOf(s, c) ==
    IF \E i \in 1..Len(s) : s[i] = c
    THEN CHOOSE i \in 1..Len(s) : s[i] = c /\ \A k \in 1..(i - 1) : s[k] # c
    ELSE 0

\* s.slice(1, -1)
sliceBrackets(s) == IF Len(s) >= 2 THEN SubSeq(s, 2, Len(s) - 1) ELSE <<>>

trim(s) ==
    IF \A i \in 1..Len(s) : s[i] \in WhiteSpace
    THEN <<>>
    ELSE LET a == CHOOSE i \in 1..Len(s) :
                     s[i] \notin WhiteSpace /\ \A k \in 1..(i - 1) : s[k] \in WhiteSpace
             b == CHOOSE i \in 1..Len(s) :
                     s[i] \notin WhiteSpace /\ \A k \in (i + 1)..Len(s) : s[k] \in WhiteSpace
         IN  SubSeq(s, a, b)

LowerCase == <<"a","b","c","d","e","f","g","h","i","j","k","l","m",
               "n","o","p","q","r","s","t","u","v","w","x","y","z">>
UpperCase == <<"A","B","C","D","E","F","G","H","I","J","K","L","M",
               "N","O","P","Q","R","S","T","U","V","W","X","Y","Z">>

toUpperCase(s) ==
    [i \in 1..Len(s) |->
        IF \E k \in 1..26 : LowerCase[k] = s[i]
        THEN UpperCase[CHOOSE k \in 1..26 : LowerCase[k] = s[i]]
        ELSE s[i]]

\* s.split(sep) for a non-empty separator: leftmost matches, never overlapping
RECURSIVE splitFrom(_, _, _, _)
splitFrom(s, sep, from, i) ==
    IF i + Len(sep) - 1 > Len(s)
    THEN << SubSeq(s, from, Len(s)) >>
    ELSE IF startsWithAt(s, sep, i)
         THEN << SubSeq(s, from, i - 1) >> \o splitFrom(s, sep, i + Len(sep), i + Len(sep))
         ELSE splitFrom(s, sep, from, i + 1)

split(s, sep) == splitFrom(s, sep, 1, 1)

\* parts.join(sep)
RECURSIVE join(_, _)
join(parts, sep) ==
    IF parts = <<>> THEN <<>>
    ELSE IF Len(parts) = 1 THEN parts[1]
    ELSE parts[1] \o sep \o join(Tail(parts), sep)

(***************************************************************************)
(* JSON.parse, on the JSON texts made of objects, arrays, strings without  *)
(* escapes, unsigned integers and the three literals.  A JSON value is a   *)
(* record tagged by t; an object keeps its entries in the order            *)
(* Object.entries lists them.                                              *)
(***************************************************************************)
JsonWs == {" ", "\t", "\n", "\r"}
Digits == <<"0","1","2","3","4","5","6","7","8","9">>
IsDigit(c) == \E k \in 1..10 : Digits[k] = c
DigitValue(c) == (CHOOSE k \in 1..10 : Digits[k] = c) - 1

JsonNull == [t |-> "null"]
JsonBool(b) == [t |-> "boolean", b |-> b]
JsonNum(n) == [t |-> "number", n |-> n]
JsonStr(s) == [t |-> "string", s |-> s]
JsonArr(items) == [t |-> "array", items |-> items]
JsonObj(entries) == [t |-> "object", entries |-> entries]
EmptyObject == JsonObj(<<>>)

SyntaxError == [ok |-> FALSE]
Parsed(v, next) == [ok |-> TRUE, v |-> v, next |-> next]

RECURSIVE skipWs(_, _)
skipWs(s, i) == IF i <= Len(s) /\ s[i] \in JsonWs THEN skipWs(s, i + 1) ELSE i

RECURSIVE digitsEnd(_, _)
digitsEnd(s, i) == IF i <= Len(s) /\ IsDigit(s[i]) THEN digitsEnd(s, i + 1) ELSE i

RECURSIVE digitsValue(_, _, _, _)
digitsValue(s, i, j, acc) ==
    IF i >= j THEN acc ELSE digitsValue(s, i + 1, j, acc * 10 + DigitValue(s[i]))

\* a number: 0, or a digit 1-9 followed by digits (a leading zero ends the number)
parseNumber(s, i) ==
    IF s[i] = "0" THEN Parsed(JsonNum(0), i + 1)
    ELSE LET j == digitsEnd(s, i) IN Parsed(JsonNum(digitsValue(s, i, j, 0)), j)

\* a string: from the quote at i to the next quote, no control character between
parseString(s, i) ==
    LET j == indexOf(SubSeq(s, i + 1, Len(s)), "\"") IN
    IF j = 0 THEN SyntaxError
    ELSE IF \E k \in (i + 1)..(i + j - 1) : s[k] \in {"\t", "\n", "\r"} THEN SyntaxError
    ELSE Parsed(JsonStr(SubSeq(s, i + 1, i + j - 1)), i + j + 1)

parseLiteral(s, i, text, v) ==
    IF startsWithAt(s, text, i) THEN Parsed(v, i + Len(text)) ELSE SyntaxError

\* a key that is a canonical array index ("0", "7", "12") is listed by
\* Object.entries before the other keys, in ascending order
IsIndexKey(k) ==
    /\ Len(k) >= 1
    /\ \A i \in 1..Len(k) : IsDigit(k[i])
    /\ (Len(k) > 1 => k[1] # "0")

IndexOfKey(k) == digitsValue(k, 1, Len(k) + 1, 0)

\* obj[k] = v on the entries: an existing key keeps its place, an index key is
\* placed among the index keys, any other key is appended
setEntry(entries, k, v) ==
    IF \E i \in 1..Len(entries) : entries[i][1] = k
    THEN [i \in 1..Len(entries) |-> IF entries[i][1] = k THEN <<k, v>> ELSE entries[i]]
    ELSE IF IsIndexKey(k)
         THEN LET before == {i \in 1..Len(entries) :
                                IsIndexKey(entries[i][1])
                                /\ IndexOfKey(entries[i][1]) < IndexOfKey(k)}
                  n == Cardinality(before)
              IN  SubSeq(entries, 1, n) \o << <<k, v>> >> \o SubSeq(entries, n + 1, Len(entries))
         ELSE Append(entries, <<k, v>>)

RECURSIVE parseValue(_, _)
RECURSIVE parseElements(_, _, _)
RECURSIVE parseMembers(_, _, _)

parseValue(s, i0) ==
    LET i == skipWs(s, i0) IN
    IF i > Len(s) THEN SyntaxError
    ELSE IF s[i] = "{"
         THEN LET j == skipWs(s, i + 1) IN
              IF j <= Len(s) /\ s[j] = "}" THEN Parsed(EmptyObject, j + 1)
              ELSE parseMembers(s, j, <<>>)
    ELSE IF s[i] = "["
         THEN LET j == skipWs(s, i + 1) IN
              IF j <= Len(s) /\ s[j] = "]" THEN Parsed(JsonArr(<<>>), j + 1)
              ELSE parseElements(s, j, <<>>)
    ELSE IF s[i] = "\"" THEN parseString(s, i)
    ELSE IF IsDigit(s[i]) THEN parseNumber(s, i)
    ELSE IF s[i] = "n" THEN parseLiteral(s, i, <<"n", "u", "l", "l">>, JsonNull)
    ELSE IF s[i] = "t" THEN parseLiteral(s, i, <<"t", "r", "u", "e">>, JsonBool(TRUE))
    ELSE IF s[i] = "f" THEN parseLiteral(s, i, <<"f", "a", "l", "s", "e">>, JsonBool(FALSE))
    ELSE SyntaxError

parseElements(s, i, acc) ==
    LET e == parseValue(s, i) IN
    IF ~e.ok THEN SyntaxError
    ELSE LET j == skipWs(s, e.next) IN
         IF j > Len(s) THEN SyntaxError
         ELSE IF s[j] = "," THEN parseElements(s, j + 1, Append(acc, e.v))
         ELSE IF s[j] = "]" THEN Parsed(JsonArr(Append(acc, e.v)), j + 1)
         ELSE SyntaxError

parseMembers(s, i, acc) ==
    IF i > Len(s) \/ s[i] # "\"" THEN SyntaxError
    ELSE LET k == parseString(s, i) IN
         IF ~k.ok THEN SyntaxError
         ELSE LET c == skipWs(s, k.next) IN
              IF c > Len(s) \/ s[c] # ":" THEN SyntaxError
              ELSE LET e == parseValue(s, c + 1) IN
                   IF ~e.ok THEN SyntaxError
                   ELSE LET j == skipWs(s, e.next) IN
                        IF j > Len(s) THEN SyntaxError
                        ELSE IF s[j] = ","
                             THEN parseMembers(s, skipWs(s, j + 1), setEntry(acc, k.v.s, e.v))
                        ELSE IF s[j] = "}"
                             THEN Parsed(JsonObj(setEntry(acc, k.v.s, e.v)), j + 1)
                        ELSE SyntaxError

\* JSON.parse(text): the whole text is one value; ok = FALSE is the SyntaxError
JSONparse(text) ==
    LET r == parseValue(text, 1) IN
    IF ~r.ok THEN SyntaxError
    ELSE IF skipWs(text, r.next) = Len(text) + 1 THEN r ELSE SyntaxError

\* typeof v for a parsed value
typeOf(v) == IF v.t \in {"null", "array", "object"} THEN "object" ELSE v.t

isArray(v) == v.t = "array"

(***************************************************************************)
(* encodeURIComponent(v): String(v), then every character outside the      *)
(* unreserved set as %HH                                                   *)
(***************************************************************************)
RECURSIVE numToString(_)
numToString(n) ==
    IF n < 10 THEN << Digits[n + 1] >>
    ELSE numToString(n \div 10) \o << Digits[(n % 10) + 1] >>

RECURSIVE toString(_)
RECURSIVE joinItems(_)
toString(v) ==
    IF v.t = "string" THEN v.s
    ELSE IF v.t = "number" THEN numToString(v.n)
    ELSE IF v.t = "boolean" THEN (IF v.b THEN <<"t", "r", "u", "e">> ELSE <<"f", "a", "l", "s", "e">>)
    ELSE IF v.t = "null" THEN <<"n", "u", "l", "l">>
    ELSE IF v.t = "array" THEN joinItems(v.items)
    ELSE <<"[", "o", "b", "j", "e", "c", "t", " ", "O", "b", "j", "e", "c", "t", "]">>

\* Array.prototype.join(","): null prints as the empty string
joinItems(items) ==
    IF items = <<>> THEN <<>>
    ELSE LET head == IF items[1].t = "null" THEN <<>> ELSE toString(items[1]) IN
         IF Len(items) = 1 THEN head
         ELSE head \o <<",">> \o joinItems(Tail(items))

UnreservedMarks == {"-", "_", ".", "!", "~", "*", "'", "(", ")"}

IsUnreserved(c) ==
    \/ \E k \in 1..26 : LowerCase[k] = c \/ UpperCase[k] = c
    \/ IsDigit(c)
    \/ c \in UnreservedMarks

\* the ASCII characters that are escaped, each with its two hex digits
Escapes ==
    << <<" ", <<"2", "0">>>>, <<"\"", <<"2", "2">>>>, <<"#", <<"2", "3">>>>, <<"$", <<"2", "4">>>>,
       <<"%", <<"2", "5">>>>, <<"&", <<"2", "6">>>>, <<"+", <<"2", "B">>>>, <<",", <<"2", "C">>>>,
       <<"/", <<"2", "F">>>>, <<":", <<"3", "A">>>>, <<";", <<"3", "B">>>>, <<"<", <<"3", "C">>>>,
       <<"=", <<"3", "D">>>>, <<">", <<"3", "E">>>>, <<"?", <<"3", "F">>>>, <<"@", <<"4", "0">>>>,
       <<"[", <<"5", "B">>>>, <<"]", <<"5", "D">>>>,
       <<"{", <<"7", "B">>>>, <<"|", <<"7", "C">>>>, <<"}", <<"7", "D">>>>, <<"\t", <<"0", "9">>>>,
       <<"\n", <<"0", "A">>>>, <<"\r", <<"0", "D">>>> >>

encodeChar(c) ==
    IF IsUnreserved(c) THEN << c >>
    ELSE <<"%">> \o Escapes[CHOOSE k \in 1..Len(Escapes) : Escapes[k][1] = c][2]

RECURSIVE encodeString(_)
encodeString(s) ==
    IF s = <<>> THEN <<>> ELSE encodeChar(s[1]) \o encodeString(Tail(s))

encodeURIComponent(v) == encodeString(toString(v))

(***************************************************************************)
(* JavaScript values other than JSON results: the reqline of the call, the *)
(* status of an error                                                      *)
(***************************************************************************)
Undefined == [type |-> "undefined"]
Null == [type |-> "null"]
Num(n) == [type |-> "number", num |-> n]
Str(s) == [type |-> "string", str |-> s]
Obj == [type |-> "object"]

\* !x
Falsy(x) ==
    \/ x.type \in {"undefined", "null"}
    \/ x.type = "number" /\ x.num = 0
    \/ x.type = "string" /\ x.str = <<>>

BadRequest == 400
InternalError == 500
MinUrlLength == 8

\* throwAppError(message, status): the application error that is thrown
throwAppError(message, status) ==
    [isApplicationError |-> TRUE, message |-> message, status |-> status]

NoError == ""

(***************************************************************************)
(* parse, lines 8-69: the input, the brackets, the pipes, the split        *)
(***************************************************************************)
reqlineContent(str) == trim(sliceBrackets(str))

hasDoubleSpace(part) ==
    \E j \in 1..(Len(part) - 1) : part[j] = " " /\ part[j + 1] = " "

\* pipeAtIsBad without the tests of what follows the pipe
pipeAtIsBadBeforeOnly(content, j) ==
    \/ j = 1 \/ content[j - 1] # " "
    \/ j >= 3 /\ content[j - 2] = " "

\* the four tests of the loop for the pipe at position j (1-based)
pipeAtIsBad(content, j) ==
    \/ j = 1 \/ content[j - 1] # " "
    \/ j = Len(content) \/ content[j + 1] # " "
    \/ j >= 3 /\ content[j - 2] = " "
    \/ j + 2 <= Len(content) /\ content[j + 2] = " "

pipeSpacingError(content) ==
    \/ includes(content, <<" ", " ", "|">>)
    \/ includes(content, <<"|", " ", " ">>)
    \/ \E j \in 1..Len(content) : content[j] = "|" /\ pipeAtIsBad(content, j)

\* malformedBrackets testing the opening bracket only
malformedOpeningOnly(str) == ~startsWith(str, <<"[">>)

\* line 17
malformedBrackets(str) == ~startsWith(str, <<"[">>) \/ ~endsWith(str, <<"]">>)

\* the message of the first check of lines 8-69 that fails, NoError when none does
inputError(reqline) ==
    IF Falsy(reqline) THEN "MISSING_REQLINE"
    ELSE IF reqline.type # "string" THEN "INVALID_SYNTAX"
    ELSE IF malformedBrackets(reqline.str) THEN "INVALID_REQLINE_FORMAT"
    ELSE LET content == reqlineContent(reqline.str) IN
         IF content = <<>> THEN "INVALID_SYNTAX"
         ELSE IF pipeSpacingError(content) THEN "INVALID_SPACING_AROUND_PIPE"
         ELSE IF Len(split(content, <<" ", "|", " ">>)) < 2 THEN "INVALID_SYNTAX"
         ELSE NoError

(***************************************************************************)
(* parse, lines 77-178: the HTTP section and the URL section               *)
(***************************************************************************)
\* lines 81 and 86
orderError(httpPart, urlPart) ==
    IF httpPart = <<>> \/ ~startsWith(trim(httpPart), <<"H", "T", "T", "P", " ">>) THEN "HTTP_NOT_FIRST"
    ELSE IF urlPart = <<>> \/ ~startsWith(trim(urlPart), <<"U", "R", "L", " ">>) THEN "URL_NOT_SECOND"
    ELSE NoError

\* the text before the first space of the trimmed section, and the text after it
keywordOf(part) == SubSeq(trim(part), 1, indexOf(trim(part), " ") - 1)
valueOf(part) == SubSeq(trim(part), indexOf(trim(part), " ") + 1, Len(trim(part)))

\* lines 91-133
httpSectionError(httpPart) ==
    IF httpPart = <<>> \/ trim(httpPart) = <<>> THEN "EMPTY_HTTP_SECTION"
    ELSE IF hasDoubleSpace(httpPart) THEN "MULTIPLE_SPACES_FOUND"
    ELSE IF indexOf(trim(httpPart), " ") = 0 THEN "MISSING_SPACE_AFTER_KEYWORD"
    ELSE IF keywordOf(httpPart) # <<"H", "T", "T", "P">> THEN "MISSING_HTTP_KEYWORD"
    ELSE IF valueOf(httpPart) = <<>> THEN "MISSING_SPACE_AFTER_KEYWORD"
    ELSE IF includes(valueOf(httpPart), <<" ">>) THEN "MULTIPLE_SPACES_FOUND"
    ELSE IF valueOf(httpPart) # toUpperCase(valueOf(httpPart)) THEN "HTTP_METHOD_NOT_UPPERCASE"
    ELSE IF valueOf(httpPart) # <<"G", "E", "T">> /\ valueOf(httpPart) # <<"P", "O", "S", "T">>
         THEN "INVALID_HTTP_METHOD"
    ELSE NoError

\* isValidUrl without the http:// alternative
isValidUrlHttpsOnly(url) ==
    /\ startsWith(url, <<"h", "t", "t", "p", "s", ":", "/", "/">>)
    /\ Len(url) > MinUrlLength

\* line 172
isValidUrl(url) ==
    /\ startsWith(url, <<"h", "t", "t", "p", ":", "/", "/">>) \/ startsWith(url, <<"h", "t", "t", "p", "s", ":", "/", "/">>)
    /\ Len(url) > MinUrlLength

\* lines 136-175
urlSectionError(urlPart) ==
    IF urlPart = <<>> \/ trim(urlPart) = <<>> THEN "EMPTY_URL_SECTION"
    ELSE IF hasDoubleSpace(urlPart) THEN "MULTIPLE_SPACES_FOUND"
    ELSE IF indexOf(trim(urlPart), " ") = 0 THEN "MISSING_SPACE_AFTER_KEYWORD"
    ELSE IF keywordOf(urlPart) # <<"U", "R", "L">> THEN "MISSING_URL_KEYWORD"
    ELSE IF valueOf(urlPart) = <<>> THEN "MISSING_SPACE_AFTER_KEYWORD"
    ELSE IF includes(valueOf(urlPart), <<" ">>) THEN "MULTIPLE_SPACES_FOUND"
    ELSE IF ~isValidUrl(valueOf(urlPart)) THEN "INVALID_URL_FORMAT"
    ELSE NoError

(***************************************************************************)
(* parse, lines 181-281: the callback of rest.forEach                      *)
(***************************************************************************)
HEADERS == <<"H", "E", "A", "D", "E", "R", "S">>
QUERY == <<"Q", "U", "E", "R", "Y">>
BODY == <<"B", "O", "D", "Y">>

\* queryPart without encodeURIComponent
queryPartUnencoded(k, v) == k \o <<"=">> \o toString(v)

\* line 261: `${k}=${encodeURIComponent(v)}`
queryPart(k, v) == k \o <<"=">> \o encodeURIComponent(v)

\* lines 259-262: the queryPart of every entry, joined by &
RECURSIVE queryStringOf(_)
queryStringOf(entries) ==
    IF entries = <<>> THEN <<>>
    ELSE IF Len(entries) = 1 THEN queryPart(entries[1][1], entries[1][2])
    ELSE queryPart(entries[1][1], entries[1][2]) \o <<"&">> \o queryStringOf(Tail(entries))

\* line 264
appendQuery(fullUrl, queryString) ==
    IF includes(fullUrl, <<"?">>)
    THEN fullUrl \o <<"&">> \o queryString
    ELSE fullUrl \o <<"?">> \o queryString

\* the message thrown in the catch of line 279
invalidJsonIn(keyword) ==
    IF keyword = HEADERS THEN "Invalid JSON format in HEADERS section"
    ELSE IF keyword = QUERY THEN "Invalid JSON format in QUERY section"
    ELSE "Invalid JSON format in BODY section"

\* headersCase building the request anew around the headers
headersCaseResetting(st, value) ==
    LET r == JSONparse(value) IN
    IF ~r.ok THEN [st EXCEPT !.error = invalidJsonIn(HEADERS)]
    ELSE IF typeOf(r.v) # "object" \/ isArray(r.v)
         THEN [st EXCEPT !.request.headers = r.v, !.error = "INVALID_JSON_FORMAT_HEADERS"]
    ELSE [st EXCEPT !.request = [query |-> EmptyObject, body |-> EmptyObject,
                                 headers |-> r.v, fullUrl |-> st.fullUrl]]

\* lines 248-253: the HEADERS case.  st is the state of the loop: the request
\* built so far, fullUrl, processedSections, and the message thrown (NoError
\* while none is)
headersCase(st, value) ==
    LET r == JSONparse(value) IN
    IF ~r.ok THEN [st EXCEPT !.error = invalidJsonIn(HEADERS)]
    ELSE IF typeOf(r.v) # "object" \/ isArray(r.v)
         THEN [st EXCEPT !.request.headers = r.v, !.error = "INVALID_JSON_FORMAT_HEADERS"]
    ELSE [st EXCEPT !.request.headers = r.v]

\* lines 254-268: the QUERY case.  Object.entries(null) throws a TypeError,
\* which the catch of line 275 turns into the message of line 279
queryCase(st, value) ==
    LET r == JSONparse(value) IN
    IF ~r.ok THEN [st EXCEPT !.error = invalidJsonIn(QUERY)]
    ELSE IF typeOf(r.v) # "object" \/ isArray(r.v)
         THEN [st EXCEPT !.request.query = r.v, !.error = "INVALID_JSON_FORMAT_QUERY"]
    ELSE IF r.v.t = "null"
         THEN [st EXCEPT !.request.query = r.v, !.error = invalidJsonIn(QUERY)]
    ELSE LET queryString == queryStringOf(r.v.entries) IN
         IF queryString # <<>>
         THEN [st EXCEPT !.request.query = r.v,
                         !.fullUrl = appendQuery(st.fullUrl, queryString),
                         !.request.fullUrl = appendQuery(st.fullUrl, queryString)]
         ELSE [st EXCEPT !.request.query = r.v]

\* lines 269-271: the BODY case
bodyCase(st, value) ==
    LET r == JSONparse(value) IN
    IF ~r.ok THEN [st EXCEPT !.error = invalidJsonIn(BODY)]
    ELSE [st EXCEPT !.request.body = r.v]

\* lines 230-244
emptySectionError(keyword) ==
    IF keyword = HEADERS THEN "EMPTY_HEADERS_SECTION"
    ELSE IF keyword = QUERY THEN "EMPTY_QUERY_SECTION"
    ELSE "EMPTY_BODY_SECTION"

\* partError without the test of processedSections
partErrorNoDuplicateTest(processedSections, part) ==
    IF part = <<>> \/ trim(part) = <<>> THEN "INVALID_SYNTAX"
    ELSE IF hasDoubleSpace(part) THEN "MULTIPLE_SPACES_FOUND"
    ELSE IF indexOf(trim(part), " ") = 0 THEN "MISSING_SPACE_AFTER_KEYWORD"
    ELSE IF keywordOf(part) # toUpperCase(keywordOf(part)) THEN "KEYWORDS_NOT_UPPERCASE"
    ELSE IF keywordOf(part) \notin {HEADERS, QUERY, BODY} THEN "INVALID_KEYWORD"
    ELSE NoError

\* partError without the scan for two consecutive spaces
partErrorNoSpaceScan(processedSections, part) ==
    IF part = <<>> \/ trim(part) = <<>> THEN "INVALID_SYNTAX"
    ELSE IF indexOf(trim(part), " ") = 0 THEN "MISSING_SPACE_AFTER_KEYWORD"
    ELSE IF keywordOf(part) # toUpperCase(keywordOf(part)) THEN "KEYWORDS_NOT_UPPERCASE"
    ELSE IF keywordOf(part) \notin {HEADERS, QUERY, BODY} THEN "INVALID_KEYWORD"
    ELSE IF keywordOf(part) \in processedSections THEN "DUPLICATE_SECTION"
    ELSE NoError

\* lines 192-226: the checks of one trailing section up to the duplicate test
partError(processedSections, part) ==
    IF part = <<>> \/ trim(part) = <<>> THEN "INVALID_SYNTAX"
    ELSE IF hasDoubleSpace(part) THEN "MULTIPLE_SPACES_FOUND"
    ELSE IF indexOf(trim(part), " ") = 0 THEN "MISSING_SPACE_AFTER_KEYWORD"
    ELSE IF keywordOf(part) # toUpperCase(keywordOf(part)) THEN "KEYWORDS_NOT_UPPERCASE"
    ELSE IF keywordOf(part) \notin {HEADERS, QUERY, BODY} THEN "INVALID_KEYWORD"
    ELSE IF keywordOf(part) \in processedSections THEN "DUPLICATE_SECTION"
    ELSE NoError

\* the callback, lines 192-280, for one part
processPart(st, part) ==
    LET thrown == partError(st.processedSections, part) IN
    IF thrown # NoError
    THEN [st EXCEPT !.error = thrown]
    ELSE LET keyword == keywordOf(part)
             value == valueOf(part)
             seen == [st EXCEPT !.processedSections = @ \cup {keyword}]
         IN  IF value = <<>> \/ trim(value) = <<>>
             THEN [seen EXCEPT !.error = emptySectionError(keyword)]
             ELSE IF keyword = HEADERS THEN headersCase(seen, value)
             ELSE IF keyword = QUERY THEN queryCase(seen, value)
             ELSE bodyCase(seen, value)

\* rest.forEach: the callback on every part in order, until one throws
RECURSIVE forEachPart(_, _)
forEachPart(st, rest) ==
    IF rest = <<>> \/ st.error # NoError THEN st
    ELSE forEachPart(processPart(st, rest[1]), Tail(rest))

\* lines 71-75 and 177-181: the state of the loop before the first part
initialLoopState(url) ==
    [request |-> [query |-> EmptyObject, body |-> EmptyObject,
                  headers |-> EmptyObject, fullUrl |-> url],
     fullUrl |-> url,
     processedSections |-> {},
     error |-> NoError]

(***************************************************************************)
(* parse, lines 5-281 in one piece: what is thrown, or the request         *)
(***************************************************************************)
partsOf(reqline) == split(reqlineContent(reqline.str), <<" ", "|", " ">>)
restOf(parts) == SubSeq(parts, 3, Len(parts))

\* the message of the first throwAppError reached before the loop
headError(reqline) ==
    LET first == inputError(reqline) IN
    IF first # NoError THEN first
    ELSE LET parts == partsOf(reqline)
             order == orderError(parts[1], parts[2])
             http == httpSectionError(parts[1])
         IN  IF order # NoError THEN order
             ELSE IF http # NoError THEN http
             ELSE urlSectionError(parts[2])

\* the state in which the loop ends (defined when headError is NoError)
loopResult(reqline) ==
    LET parts == partsOf(reqline) IN
    forEachPart(initialLoopState(valueOf(parts[2])), restOf(parts))

\* the message parse throws before line 283, NoError when it reaches line 283
validationError(reqline) ==
    LET head == headError(reqline) IN
    IF head # NoError THEN head ELSE loopResult(reqline).error

(***************************************************************************)
(* The reqlines of the model.  A call is made with one of them; each is    *)
(* built from section texts joined by delimiters inside brackets.          *)
(***************************************************************************)
MaxRest == 3
MaxLatency == 1

ValidHttp == { <<"H", "T", "T", "P", " ", "G", "E", "T">>, <<"H", "T", "T", "P", " ", "P", "O", "S", "T">> }
OtherHttp == { <<"H", "T", "T", "P", " ", "g", "e", "t">>, <<"H", "T", "T", "P", " ", "P", "A", "T", "C", "H">>, <<"H", "T", "T", "P", " ", " ", "G", "E", "T">>, <<"H", "T", "T", "P", " ", "G", "E", "T", " ", "x">>,
               <<"H", "T", "T", "P">>, <<"h", "t", "t", "p", " ", "G", "E", "T">> }

ValidUrl == { <<"U", "R", "L", " ", "h", "t", "t", "p", ":", "/", "/", "a", "b">>, <<"U", "R", "L", " ", "h", "t", "t", "p", "s", ":", "/", "/", "a", ".", "c", "o", "/", "x", "?", "y", "=", "1">> }
OtherUrl == { <<"U", "R", "L", " ", "h", "t", "t", "p", ":", "/", "/", "a">>, <<"U", "R", "L", " ", "f", "t", "p", ":", "/", "/", "a", "b", "c", "d">>, <<"U", "R", "L", " ", " ", "h", "t", "t", "p", ":", "/", "/", "a", "b">>,
              <<"U", "R", "L", " ", "h", "t", "t", "p", ":", "/", "/", "a", " ", "b">>, <<"U", "R", "L">>, <<"u", "r", "l", " ", "h", "t", "t", "p", ":", "/", "/", "a", "b">> }

\* the trailing sections that are combined freely, in every order
CoreParts == { <<"H", "E", "A", "D", "E", "R", "S", " ", "{", "\"", "h", "\"", ":", "\"", "1", "\"", "}">>, <<"H", "E", "A", "D", "E", "R", "S", " ", "[", "1", ",", "2", "]">>,
               <<"Q", "U", "E", "R", "Y", " ", "{", "\"", "a", "\"", ":", "\"", "b", " ", "c", "\"", "}">>, <<"B", "O", "D", "Y", " ", "[", "1", ",", "2", "]">>, <<"B", "O", "D", "Y", " ", " ", "{", "}">> }

\* the trailing sections that are tried alone
SingleParts == { <<"H", "E", "A", "D", "E", "R", "S", " ", "n", "u", "l", "l">>, <<"H", "E", "A", "D", "E", "R", "S", " ", "1">>, <<"H", "E", "A", "D", "E", "R", "S", " ", "\"", "s", "\"">>, <<"H", "E", "A", "D", "E", "R", "S", " ", "t", "r", "u", "e">>,
                 <<"H", "E", "A", "D", "E", "R", "S", " ", "{", "b", "a", "d">>, <<"H", "E", "A", "D", "E", "R", "S", " ", "{", "}">>, <<"H", "E", "A", "D", "E", "R", "S", " ", "{", " ", "\"", "h", "\"", " ", ":", " ", "[", "1", ",", " ", "2", "]", " ", "}">>,
                 <<"Q", "U", "E", "R", "Y", " ", "n", "u", "l", "l">>, <<"Q", "U", "E", "R", "Y", " ", "{", "}">>, <<"Q", "U", "E", "R", "Y", " ", "{", "\"", "a", " ", "b", "\"", ":", "\"", "1", "\"", "}">>, <<"Q", "U", "E", "R", "Y", " ", "[", "1", ",", "2", "]">>, <<"Q", "U", "E", "R", "Y", " ", "7">>,
                 <<"Q", "U", "E", "R", "Y", " ", "{", "\"", "b", "\"", ":", "\"", "2", "\"", ",", "\"", "1", "\"", ":", "\"", "x", "\"", ",", "\"", "b", "\"", ":", "\"", "3", "\"", "}">>,
                 <<"Q", "U", "E", "R", "Y", " ", "{", "\"", "n", "\"", ":", "1", "0", ",", "\"", "z", "\"", ":", "n", "u", "l", "l", ",", "\"", "l", "\"", ":", "[", "1", ",", "n", "u", "l", "l", ",", "{", "}", "]", ",", "\"", "o", "\"", ":", "{", "}", ",", "\"", "t", "\"", ":", "t", "r", "u", "e", "}">>,
                 <<"Q", "U", "E", "R", "Y", " ", "{", "\"", "a", "\"", ":", "\"", "1", "\"", ",", "}">>,
                 <<"B", "O", "D", "Y", " ", "1">>, <<"B", "O", "D", "Y", " ", "n", "u", "l", "l">>, <<"B", "O", "D", "Y", " ", "{", "\"", "a", "\"", ":", "\"", "1", "\"", "}">>, <<"B", "O", "D", "Y", " ", "0", "1">>,
                 <<"h", "e", "a", "d", "e", "r", "s", " ", "{", "}">>, <<"F", "O", "O", " ", "{", "}">>, <<"B", "O", "D", "Y", "\t", "{", "}">> }

Delimiters == { <<" ", "|", " ">>, <<"|", " ">>, <<" ", "|">>, <<"|">>, <<" ", " ", "|", " ">>, <<" ", "|", " ", " ">>, <<" ", "|", " ", "|", " ">>, <<"\t", "|", " ">> }

Openings == { <<>>, <<"[">>, <<" ", "[">>, <<"x", "[">> }
Closings == { <<>>, <<"]">>, <<"]", " ">> }
Interiors == { <<>>, <<" ">>, <<"|">>, <<"H", "T", "T", "P", " ", "G", "E", "T">>,
               <<"H", "T", "T", "P", " ", "G", "E", "T", " ", "|", " ", "U", "R", "L", " ", "h", "t", "t", "p", ":", "/", "/", "a", "b">>, <<" ", "H", "T", "T", "P", " ", "G", "E", "T", " ", "|", " ", "U", "R", "L", " ", "h", "t", "t", "p", ":", "/", "/", "a", "b", " ">>,
               <<"|", " ", "H", "T", "T", "P", " ", "G", "E", "T", " ", "|", " ", "U", "R", "L", " ", "h", "t", "t", "p", ":", "/", "/", "a", "b">>, <<"H", "T", "T", "P", " ", "G", "E", "T", " ", "|", " ", "U", "R", "L", " ", "h", "t", "t", "p", ":", "/", "/", "a", "b", " ", "|">> }

RECURSIVE SeqsUpTo(_, _)
SeqsUpTo(S, n) ==
    IF n = 0 THEN { <<>> }
    ELSE SeqsUpTo(S, n - 1)
         \cup { Append(q, x) : q \in { p \in SeqsUpTo(S, n - 1) : Len(p) = n - 1 }, x \in S }

bracketed(parts) == <<"[">> \o join(parts, <<" ", "|", " ">>) \o <<"]">>

\* a valid head followed by up to MaxRest trailing sections
CombinedHeads == { << <<"H", "T", "T", "P", " ", "G", "E", "T">>, <<"U", "R", "L", " ", "h", "t", "t", "p", "s", ":", "/", "/", "a", ".", "c", "o", "/", "x", "?", "y", "=", "1">> >>,
                   << <<"H", "T", "T", "P", " ", "P", "O", "S", "T">>, <<"U", "R", "L", " ", "h", "t", "t", "p", ":", "/", "/", "a", "b">> >> }
CombinedReqlines ==
    { bracketed(h \o r) : h \in CombinedHeads, r \in SeqsUpTo(CoreParts, MaxRest) }

\* a valid head followed by one trailing section
SingleReqlines ==
    { bracketed(<<h, u, p>>) : h \in ValidHttp, u \in ValidUrl, p \in SingleParts }

\* every head, alone or followed by one trailing section
HeadReqlines ==
    { bracketed(<<h, u>> \o r) :
        h \in ValidHttp \cup OtherHttp, u \in ValidUrl \cup OtherUrl,
        r \in { <<>>, << <<"B", "O", "D", "Y", " ", " ", "{", "}">> >>, << <<"Q", "U", "E", "R", "Y">> >>, << <<"H", "E", "A", "D", "E", "R", "S", " ", "{", "\"", "h", "\"", ":", "\"", "1", "\"", "}">> >> } }

\* every delimiter in the place of each " | "
DelimiterReqlines ==
    { <<"[">> \o <<"H", "T", "T", "P", " ", "G", "E", "T">> \o d1 \o <<"U", "R", "L", " ", "h", "t", "t", "p", ":", "/", "/", "a", "b">> \o <<"]">> : d1 \in Delimiters }
    \cup { <<"[">> \o <<"H", "T", "T", "P", " ", "G", "E", "T">> \o d1 \o <<"U", "R", "L", " ", "h", "t", "t", "p", ":", "/", "/", "a", "b">> \o d2 \o <<"B", "O", "D", "Y", " ", "[", "1", ",", "2", "]">> \o <<"]">> :
             d1 \in Delimiters, d2 \in Delimiters }

\* every opening and closing around an interior
WrappedReqlines ==
    { o \o i \o c : o \in Openings, i \in Interiors, c \in Closings }

Reqlines ==
    { Str(s) : s \in CombinedReqlines \cup SingleReqlines \cup HeadReqlines
                      \cup DelimiterReqlines \cup WrappedReqlines }
    \cup { Undefined, Null, Num(0), Num(42), Obj }

\* what the transport collaborator may answer
UpstreamStatuses == { 404, 503 }
Rejections ==
    { [message |-> "Request failed", response |-> [status |-> Num(s)]] : s \in UpstreamStatuses }
    \cup { [message |-> "Request failed", response |-> [status |-> Undefined]],
           [message |-> "connect ECONNREFUSED", response |-> Undefined] }
Resolutions == { [status |-> 200, data |-> "ok"] }

(***************************************************************************)
(* One call of parse                                                       *)
(***************************************************************************)
VARIABLES
    reqline,                \* serviceData.reqline
    pc,                     \* "called", "awaiting" (line 287), "returned", "thrown"
    method,                 \* the local of line 111
    request,                \* the local of line 71
    requestStartTimestamp,  \* the local of line 283
    result,                 \* what parse returns (lines 302-311)
    error,                  \* what parse throws
    caught,                 \* the error of the catch of line 295
    httpCalls,              \* how many times httpRequest has been called
    now                     \* Date.now()

vars == <<reqline, pc, method, request, requestStartTimestamp, result, error, caught, httpCalls, now>>

Init ==
    /\ reqline \in Reqlines
    /\ pc = "called"
    /\ method = Undefined
    /\ request = Undefined
    /\ requestStartTimestamp = Undefined
    /\ result = Undefined
    /\ error = Undefined
    /\ caught = Undefined
    /\ httpCalls = 0
    /\ now = 0

\* lines 5-281, a check fails: the error of the first failing check is thrown
validationThrows ==
    /\ pc = "called"
    /\ validationError(reqline) # NoError
    /\ pc' = "thrown"
    /\ error' = throwAppError(validationError(reqline), Num(BadRequest))
    /\ UNCHANGED <<reqline, method, request, requestStartTimestamp, result, caught,
                   httpCalls, now>>

\* lines 5-292, every check passes: the request is built and httpRequest called
callTransport ==
    /\ pc = "called"
    /\ validationError(reqline) = NoError
    /\ pc' = "awaiting"
    /\ method' = valueOf(partsOf(reqline)[1])
    /\ request' = loopResult(reqline).request
    /\ requestStartTimestamp' = now
    /\ httpCalls' = httpCalls + 1
    /\ UNCHANGED <<reqline, result, error, caught, now>>

\* lines 293-311: httpRequest resolves after d time units
transportResolves(res, d) ==
    /\ pc = "awaiting"
    /\ pc' = "returned"
    /\ now' = now + d
    /\ result' = [request |-> request,
                  response |-> [httpStatus |-> res.status,
                                duration |-> (now + d) - requestStartTimestamp,
                                requestStartTimestamp |-> requestStartTimestamp,
                                requestStopTimestamp |-> now + d,
                                responseData |-> res.data]]
    /\ UNCHANGED <<reqline, method, request, requestStartTimestamp, error, caught, httpCalls>>

\* line 296: the status handed to throwAppError
transportStatus(err) ==
    IF err.response # Undefined THEN err.response.status ELSE Num(InternalError)

\* transportRejects calling httpRequest again instead of throwing
transportRejectsRetrying(err) ==
    /\ pc = "awaiting"
    /\ pc' = "awaiting"
    /\ caught' = err
    /\ httpCalls' = httpCalls + 1
    /\ UNCHANGED <<reqline, method, request, requestStartTimestamp, result, error, now>>

\* lines 295-297: httpRequest rejects
transportRejects(err) ==
    /\ pc = "awaiting"
    /\ pc' = "thrown"
    /\ caught' = err
    /\ error' = throwAppError(err.message, transportStatus(err))
    /\ UNCHANGED <<reqline, method, request, requestStartTimestamp, result, httpCalls, now>>

Next ==
    \/ validationThrows
    \/ callTransport
    \/ \E res \in Resolutions, d \in 0..MaxLatency : transportResolves(res, d)
    \/ \E err \in Rejections : transportRejects(err)

Spec == Init /\ [][Next]_vars

(***************************************************************************)
(* Properties                                                              *)
(***************************************************************************)
Checked == pc # "called"
\* every check passed: the request was built and handed to the transport
Built == pc # "called" /\ httpCalls >= 1
IsString == reqline.type = "string"
ThrownWith(message) ==
    pc = "thrown" /\ error.message = message /\ error.status = Num(400) /\ httpCalls = 0
DefaultRequest(U) ==
    [query |-> EmptyObject, body |-> EmptyObject, headers |-> EmptyObject, fullUrl |-> U]

\* ---- C1 -----------------------------------------------------------------
SimplePrefix(M) == <<"[", "H", "T", "T", "P", " ">> \o M \o <<" ", "|", " ", "U", "R", "L", " ">>
IsSimple(str) ==
    \E M \in { <<"G", "E", "T">>, <<"P", "O", "S", "T">> } :
        startsWith(str, SimplePrefix(M)) /\ endsWith(str, <<"]">>)
        /\ Len(str) > Len(SimplePrefix(M))
SimpleMethod(str) == CHOOSE M \in { <<"G", "E", "T">>, <<"P", "O", "S", "T">> } : startsWith(str, SimplePrefix(M))
SimpleUrl(str) == SubSeq(str, Len(SimplePrefix(SimpleMethod(str))) + 1, Len(str) - 1)
HasScheme(U) ==
    /\ startsWith(U, <<"h", "t", "t", "p", ":", "/", "/">>) \/ startsWith(U, <<"h", "t", "t", "p", "s", ":", "/", "/">>)
    /\ Len(U) > 8
IsSimpleValid ==
    IsString /\ IsSimple(reqline.str) /\ HasScheme(SimpleUrl(reqline.str))
NoSpaceNoPipe(U) == \A i \in 1..Len(U) : U[i] \notin WhiteSpace \cup {"|"}

\* C1 as stated: every [HTTP <M> | URL <U>] with M GET or POST and U starting
\* with http:// or https://, longer than 8, passes validation and builds the
\* request with empty query, body and headers and fullUrl = U.
C1_AnyUrlBuilds ==
    (Checked /\ IsSimpleValid)
        => (Built /\ request = DefaultRequest(SimpleUrl(reqline.str)))

\* C1 amended: the same for every such U that holds no whitespace and no pipe.
C1_CleanUrlBuilds ==
    (Checked /\ IsSimpleValid /\ NoSpaceNoPipe(SimpleUrl(reqline.str)))
        => (/\ Built
            /\ request = DefaultRequest(SimpleUrl(reqline.str))
            /\ method = SimpleMethod(reqline.str))

C1_Witness ==
    /\ IsSimpleValid /\ NoSpaceNoPipe(SimpleUrl(reqline.str))
    /\ pc = "awaiting"
    /\ request.fullUrl = <<"h", "t", "t", "p", ":", "/", "/", "a", "b">>

\* ---- C2 -----------------------------------------------------------------
HeadOk == IsString /\ headError(reqline) = NoError
Rest == restOf(partsOf(reqline))
Url == valueOf(partsOf(reqline)[2])
Carries(part, K) == startsWith(trim(part), K \o <<" ">>)
Repeats(rest, i) ==
    \E j \in 1..(i - 1), K \in {HEADERS, QUERY, BODY} :
        Carries(rest[j], K) /\ Carries(rest[i], K)
HasRepeat(rest) == \E i \in 1..Len(rest) : Repeats(rest, i)
FirstRepeat(rest) ==
    CHOOSE i \in 1..Len(rest) : Repeats(rest, i) /\ \A m \in 1..(i - 1) : ~Repeats(rest, m)
ValidAlone(url, part) == processPart(initialLoopState(url), part).error = NoError

\* C2 as stated: two trailing sections with the same keyword always give
\* DuplicateSection, whatever the content of the trailing sections.
C2_AlwaysDuplicate ==
    (Checked /\ HeadOk /\ HasRepeat(Rest)) => ThrownWith("DUPLICATE_SECTION")

\* C2 amended: two trailing sections with the same keyword always make parse
\* fail with a 400 error before the transport; the error is DuplicateSection
\* when every trailing section before the repeated one is valid by itself and
\* the repeated one holds no run of two spaces.
C2_DuplicateAfterValid ==
    (Checked /\ HeadOk /\ HasRepeat(Rest))
        => (/\ pc = "thrown" /\ error.status = Num(400) /\ httpCalls = 0
            /\ ((/\ \A m \in 1..(FirstRepeat(Rest) - 1) : ValidAlone(Url, Rest[m])
                 /\ ~hasDoubleSpace(Rest[FirstRepeat(Rest)]))
                    => error.message = "DUPLICATE_SECTION"))

C2_Witness ==
    /\ HeadOk /\ Len(Rest) = 3
    /\ Repeats(Rest, 3) /\ ~Repeats(Rest, 2)
    /\ Carries(Rest[1], QUERY) /\ Carries(Rest[3], QUERY)
    /\ ThrownWith("DUPLICATE_SECTION")

\* ---- C3 -----------------------------------------------------------------
DecodesToNonObject(value) == JSONparse(value).ok /\ JSONparse(value).v.t # "object"

\* C3 as stated: a HEADERS value that decodes to an array, a scalar or null is
\* rejected with InvalidHeadersJson, and in every request that is built
\* headers and query are objects.
C3_ObjectsOnly ==
    /\ (Checked /\ HeadOk /\ Len(Rest) >= 1 /\ Carries(Rest[1], HEADERS)
            /\ DecodesToNonObject(valueOf(Rest[1])))
        => ThrownWith("INVALID_JSON_FORMAT_HEADERS")
    /\ Built => (request.headers.t = "object" /\ request.query.t = "object")

\* ---- C4 -----------------------------------------------------------------
Reparsed == Str(<<"[", "H", "T", "T", "P", " ">> \o method \o <<" ", "|", " ", "U", "R", "L", " ">> \o request.fullUrl \o <<"]">>)
ReparseKeepsUrl ==
    /\ validationError(Reparsed) = NoError
    /\ loopResult(Reparsed).request = DefaultRequest(request.fullUrl)
NoSpaceInKeys(query) ==
    \A i \in 1..Len(query.entries) : ~includes(query.entries[i][1], <<" ">>)

IsWrapped(str) == Len(str) >= 2 /\ str[1] = "[" /\ str[Len(str)] = "]"
OneSpaceBefore(c, j) == j >= 2 /\ c[j - 1] = " " /\ (j >= 3 => c[j - 2] # " ")
OneSpaceAfter(c, j) ==
    j + 1 <= Len(c) /\ c[j + 1] = " " /\ (j + 2 <= Len(c) => c[j + 2] # " ")
HasBadPipe(c) ==
    \E j \in 1..Len(c) : c[j] = "|" /\ ~(OneSpaceBefore(c, j) /\ OneSpaceAfter(c, j))
BadPipeInput ==
    /\ IsString /\ IsWrapped(reqline.str)
    /\ reqlineContent(reqline.str) # <<>>
    /\ HasBadPipe(reqlineContent(reqline.str))

\* C5: a bracket-wrapped input whose interior holds a pipe not surrounded by
\* exactly one space on each side fails with PipeSpacingError, whatever the
\* split of the interior would give.
C5_PipeSpacingFirst == (Checked /\ BadPipeInput) => ThrownWith("INVALID_SPACING_AROUND_PIPE")

C5_Witness ==
    /\ BadPipeInput
    /\ Len(split(reqlineContent(reqline.str), <<" ", "|", " ">>)) < 2
    /\ ThrownWith("INVALID_SPACING_AROUND_PIPE")

\* ---- C6 -----------------------------------------------------------------
Orders(n) == { p \in [1..n -> 1..n] : \A a, b \in 1..n : a # b => p[a] # p[b] }
Reordered(p) ==
    LET parts == partsOf(reqline)
        rest == restOf(parts)
    IN  Str(bracketed(<<parts[1], parts[2]>> \o [i \in 1..Len(rest) |-> rest[p[i]]]))

\* C6: a reqline that parses builds the same request whatever the order of its
\* trailing sections.
C6_OrderIndependent ==
    Built => \A p \in Orders(Len(Rest)) :
                 /\ validationError(Reordered(p)) = NoError
                 /\ loopResult(Reordered(p)).request = request

C6_Witness ==
    /\ Built /\ Len(Rest) = 3
    /\ Carries(Rest[1], QUERY) /\ Carries(Rest[2], HEADERS)
    /\ request.fullUrl # Url

\* ---- C7 -----------------------------------------------------------------
ViolatesWrapping ==
    ~IsString \/ Len(reqline.str) = 0
    \/ reqline.str[1] # "[" \/ reqline.str[Len(reqline.str)] # "]"

\* C7 as stated: every input that violates the bracket wrapping, the empty
\* string and the inputs that are no strings included, gives MalformedBrackets.
C7_AnyInputMalformed == (Checked /\ ViolatesWrapping) => ThrownWith("INVALID_REQLINE_FORMAT")

\* C7 amended: every non-empty string that does not start with [ or does not
\* end with ] gives MalformedBrackets.
C7_NonEmptyStringMalformed ==
    (Checked /\ IsString /\ reqline.str # <<>> /\ ViolatesWrapping)
        => ThrownWith("INVALID_REQLINE_FORMAT")

C7_Witness ==
    /\ IsString /\ reqline.str = <<"[", "H", "T", "T", "P", " ", "G", "E", "T", " ", "|", " ", "U", "R", "L", " ", "h", "t", "t", "p", ":", "/", "/", "a", "b">>
    /\ ThrownWith("INVALID_REQLINE_FORMAT")

\* ---- C8 -----------------------------------------------------------------
UpstreamStatus ==
    IF caught.response # Undefined /\ caught.response.status # Undefined
    THEN caught.response.status
    ELSE Num(500)

\* C8 as stated: an error thrown before the transport call has status 400; a
\* failed transport call gives the upstream status when the failure carries
\* one and 500 in every other case.
C8_TransportStatus ==
    pc = "thrown" =>
        IF httpCalls = 0 THEN error.status = Num(400) ELSE error.status = UpstreamStatus

\* ---- C9 -----------------------------------------------------------------
\* C9: the transport is called at most once, only when every check has
\* passed; a failed check throws without a call and without a result, and a
\* failed call is not repeated.
C9_OneCallAfterChecks ==
    /\ httpCalls \in {0, 1}
    /\ httpCalls = 1 => validationError(reqline) = NoError
    /\ (Checked /\ validationError(reqline) # NoError)
        => (pc = "thrown" /\ httpCalls = 0 /\ result = Undefined /\ request = Undefined)
    /\ pc = "thrown" => result = Undefined
    /\ pc = "returned" => (httpCalls = 1 /\ error = Undefined)

C9_Witness == pc = "thrown" /\ httpCalls = 1 /\ caught # Undefined /\ result = Undefined

\* ---- C10 ----------------------------------------------------------------
Parts == partsOf(reqline)
Sectioned ==
    /\ IsString /\ inputError(reqline) = NoError
    /\ orderError(Parts[1], Parts[2]) = NoError
LacksSpace(part) == indexOf(trim(part), " ") = 0
GrammarDefect(part) == hasDoubleSpace(part) \/ LacksSpace(part)
FirstDefect(parts) ==
    CHOOSE k \in 1..Len(parts) :
        GrammarDefect(parts[k]) /\ \A m \in 1..(k - 1) : ~GrammarDefect(parts[m])
ValidBefore(parts, k) ==
    /\ k > 1 => httpSectionError(parts[1]) = NoError
    /\ k > 2 => urlSectionError(parts[2]) = NoError
    /\ k > 3 => forEachPart(initialLoopState(valueOf(parts[2])),
                            SubSeq(parts, 3, k - 1)).error = NoError

=============================================================================
